---- MODULE Spec2Model ----
(***************************************************************************)
(* Model of the streaming response bridge of ApiService:                   *)
(*   - src/geminiservices.ts : runQueryStream on XMLHttpRequest            *)
(*     (callbacks -> queue -> async generator), "\n\n" framing;            *)
(*   - src/unnamed/part_000  : runQueryStream on fetch + body reader       *)
(*     (async generator reading chunks), "\n" framing, parseChunk.         *)
(* Response text is a TLA+ string (TLC's Len, SubSeq and \o work on        *)
(* strings), so substring/indexOf/trim/startsWith act on characters as in  *)
(* the source.                                                             *)
(***************************************************************************)
EXTENDS Integers, Sequences, FiniteSets, TLC

(***************************************************************************)
(* String primitives of the JavaScript runtime used by the source.         *)
(***************************************************************************)

\* s.charAt(i - 1): the i-th character (1-based), "" past the end.
CharAt(s, i) == IF i >= 1 /\ i <= Len(s) THEN SubSeq(s, i, i) ELSE ""

\* s.substring(n): drop the first n characters (n clamped to the length).
Substring(s, n) == IF n >= Len(s) THEN "" ELSE SubSeq(s, n + 1, Len(s))

\* s.substring(0, n) / s.slice(0, n): the first n characters.
Prefix(s, n) == IF n <= 0 THEN "" ELSE IF n >= Len(s) THEN s ELSE SubSeq(s, 1, n)

\* s.slice(i - 1, j): the characters i..j (1-based), clamped to the string.
Slice(s, i, j) ==
    LET a == IF i < 1 THEN 1 ELSE i
        b == IF j > Len(s) THEN Len(s) ELSE j
    IN  IF a > b THEN "" ELSE SubSeq(s, a, b)

\* s.startsWith(p)
StartsWith(s, p) == Len(s) >= Len(p) /\ SubSeq(s, 1, Len(p)) = p

\* White space as String.prototype.trim and the JSON grammar see it (the
\* inputs of this model hold no other white space character).
IsWhiteSpace(c) == c \in {" ", "\n", "\t", "\r"}

RECURSIVE TrimStart(_)
TrimStart(s) ==
    IF Len(s) > 0 /\ IsWhiteSpace(CharAt(s, 1)) THEN TrimStart(Substring(s, 1)) ELSE s

RECURSIVE TrimEnd(_)
TrimEnd(s) ==
    IF Len(s) > 0 /\ IsWhiteSpace(CharAt(s, Len(s)))
    THEN TrimEnd(Prefix(s, Len(s) - 1)) ELSE s

\* s.trim()
Trim(s) == TrimEnd(TrimStart(s))

\* s.indexOf(p) as a 1-based position; 0 stands for JavaScript's -1.
IndexOf(s, p) ==
    LET hits == {i \in 1..(Len(s) - Len(p) + 1) : SubSeq(s, i, i + Len(p) - 1) = p}
    IN  IF hits = {} THEN 0 ELSE CHOOSE i \in hits : \A j \in hits : i <= j

\* s.split("\n"): the lines of s, as a sequence of strings.
RECURSIVE SplitLines(_)
SplitLines(s) ==
    LET n == IndexOf(s, "\n") IN
    IF n = 0 THEN <<s>>
    ELSE <<Prefix(s, n - 1)>> \o SplitLines(Substring(s, n))

(***************************************************************************)
(* JSON.parse, for the JSON the model's inputs hold: objects, arrays,      *)
(* strings without escapes, unsigned integers, null, true, false, with     *)
(* white space between tokens.  A parse step returns                       *)
(*   [ok, val, pos]: success, the value, the position after it.            *)
(* Values: [kind |-> "string", str], [kind |-> "number", str],             *)
(* [kind |-> "null"], [kind |-> "bool", str],                              *)
(* [kind |-> "object", keys, vals], [kind |-> "array", vals].              *)
(***************************************************************************)

Digits == {"0", "1", "2", "3", "4", "5", "6", "7", "8", "9"}

JsonFail == [ok |-> FALSE, val |-> [kind |-> "undefined"], pos |-> 0]

RECURSIVE SkipWs(_, _)
SkipWs(s, i) == IF IsWhiteSpace(CharAt(s, i)) THEN SkipWs(s, i + 1) ELSE i

\* The position of the closing quote of a string whose first character is at i.
RECURSIVE StringEnd(_, _)
StringEnd(s, i) ==
    IF i > Len(s) \/ CharAt(s, i) = "\\" \/ CharAt(s, i) = "\n" THEN 0
    ELSE IF CharAt(s, i) = "\"" THEN i
    ELSE StringEnd(s, i + 1)

ParseString(s, i) ==
    LET e == StringEnd(s, i + 1) IN
    IF CharAt(s, i) # "\"" \/ e = 0 THEN JsonFail
    ELSE [ok |-> TRUE,
          val |-> [kind |-> "string",
                   str |-> IF e = i + 1 THEN "" ELSE SubSeq(s, i + 1, e - 1)],
          pos |-> e + 1]

RECURSIVE NumberEnd(_, _)
NumberEnd(s, i) == IF CharAt(s, i) \in Digits THEN NumberEnd(s, i + 1) ELSE i

ParseNumber(s, i) ==
    LET e == NumberEnd(s, i) IN
    IF e = i \/ (CharAt(s, i) = "0" /\ e > i + 1) THEN JsonFail
    ELSE [ok |-> TRUE, val |-> [kind |-> "number", str |-> SubSeq(s, i, e - 1)],
          pos |-> e]

ParseLiteral(s, i) ==
    IF Slice(s, i, i + 3) = "null"
    THEN [ok |-> TRUE, val |-> [kind |-> "null"], pos |-> i + 4]
    ELSE IF Slice(s, i, i + 3) = "true"
    THEN [ok |-> TRUE, val |-> [kind |-> "bool", str |-> "true"], pos |-> i + 4]
    ELSE IF Slice(s, i, i + 4) = "false"
    THEN [ok |-> TRUE, val |-> [kind |-> "bool", str |-> "false"], pos |-> i + 5]
    ELSE JsonFail

RECURSIVE ParseValue(_, _)
RECURSIVE ParseMembers(_, _, _, _)
RECURSIVE ParseElements(_, _, _)

\* After "{" and zero or more members: the next member, then "," or "}".
ParseMembers(s, i, keys, vals) ==
    LET k == ParseString(s, SkipWs(s, i)) IN
    IF ~k.ok THEN JsonFail
    ELSE LET c == SkipWs(s, k.pos) IN
         IF CharAt(s, c) # ":" THEN JsonFail
         ELSE LET v == ParseValue(s, c + 1) IN
              IF ~v.ok THEN JsonFail
              ELSE LET d == SkipWs(s, v.pos)
                       ks == Append(keys, k.val.str)
                       vs == Append(vals, v.val)
                   IN  IF CharAt(s, d) = "," THEN ParseMembers(s, d + 1, ks, vs)
                       ELSE IF CharAt(s, d) = "}"
                       THEN [ok |-> TRUE,
                             val |-> [kind |-> "object", keys |-> ks, vals |-> vs],
                             pos |-> d + 1]
                       ELSE JsonFail

\* After "[" and zero or more elements: the next element, then "," or "]".
ParseElements(s, i, vals) ==
    LET v == ParseValue(s, i) IN
    IF ~v.ok THEN JsonFail
    ELSE LET d == SkipWs(s, v.pos)
             vs == Append(vals, v.val)
         IN  IF CharAt(s, d) = "," THEN ParseElements(s, d + 1, vs)
             ELSE IF CharAt(s, d) = "]"
             THEN [ok |-> TRUE, val |-> [kind |-> "array", vals |-> vs], pos |-> d + 1]
             ELSE JsonFail

ParseValue(s, i0) ==
    LET i == SkipWs(s, i0)
        c == CharAt(s, i)
    IN  IF c = "{"
        THEN IF CharAt(s, SkipWs(s, i + 1)) = "}"
             THEN [ok |-> TRUE,
                   val |-> [kind |-> "object", keys |-> <<>>, vals |-> <<>>],
                   pos |-> SkipWs(s, i + 1) + 1]
             ELSE ParseMembers(s, i + 1, <<>>, <<>>)
        ELSE IF c = "["
        THEN IF CharAt(s, SkipWs(s, i + 1)) = "]"
             THEN [ok |-> TRUE, val |-> [kind |-> "array", vals |-> <<>>],
                   pos |-> SkipWs(s, i + 1) + 1]
             ELSE ParseElements(s, i + 1, <<>>)
        ELSE IF c = "\"" THEN ParseString(s, i)
        ELSE IF c \in Digits THEN ParseNumber(s, i)
        ELSE ParseLiteral(s, i)

\* JSON.parse(text): [ok |-> FALSE] stands for the SyntaxError it throws.
JsonParse(text) ==
    LET v == ParseValue(text, 1) IN
    IF v.ok /\ SkipWs(text, v.pos) = Len(text) + 1 THEN v ELSE JsonFail

\* parsed[key] for a parsed value that is not null: the member of an object
\* (the last one of that name), undefined for anything else.
RECURSIVE LookUp(_, _, _)
LookUp(obj, key, n) ==
    IF n = 0 THEN [kind |-> "undefined"]
    ELSE IF obj.keys[n] = key THEN obj.vals[n]
    ELSE LookUp(obj, key, n - 1)

Member(v, key) ==
    IF v.kind = "object" THEN LookUp(v, key, Len(v.keys)) ELSE [kind |-> "undefined"]

\* JavaScript truthiness of a value.
Truthy(v) ==
    CASE v.kind = "string" -> v.str # ""
      [] v.kind = "number" -> v.str # "0"
      [] v.kind = "bool" -> v.str = "true"
      [] v.kind \in {"object", "array"} -> TRUE
      [] OTHER -> FALSE


\* The shape test of both decoders (geminiservices.ts line 100, parseChunk line
\* 141): agent and response are truthy strings.  Reading a property of null
\* throws a TypeError inside the try block, which the catch swallows.
IsStreamEvent(parsed) ==
    /\ parsed.kind # "null"
    /\ Truthy(Member(parsed, "agent")) /\ Member(parsed, "agent").kind = "string"
    /\ Truthy(Member(parsed, "response")) /\ Member(parsed, "response").kind = "string"

\* The event a decoder hands on: the parsed object, by its two fields.
EventOf(parsed) ==
    [agent |-> Member(parsed, "agent").str, response |-> Member(parsed, "response").str]

NoEvent == [some |-> FALSE]
SomeEvent(e) == [some |-> TRUE, event |-> e]


(***************************************************************************)
(* Inputs: what the server sends.  A response is a status and a body; the   *)
(* body is a sequence of records, each of one kind, separated by the blank *)
(* line of Server-Sent Events, the last one terminated or not.  The body   *)
(* is a string of bytes: an ASCII byte is written as its character, the    *)
(* two bytes C3 A9 (UTF-8 for U+00E9) as "^" and "~"; in decoded text "E"  *)
(* stands for U+00E9 and "?" for U+FFFD.                                   *)
(***************************************************************************)

MaxRecords == 3
MaxSpecial == 1

\* The i-th record carries the digit i as its response, so that the events of
\* a body are distinct.
DigitOf(i) == CharAt("123456789", i)

MalformedKinds == {"badjson", "missing", "nonstring", "empty"}
RecordKinds == {"event", "utf8", "done", "nospace", "nomarker"} \cup MalformedKinds

RecordText(kind, i) ==
    CASE kind = "event"     -> "data: {\"agent\":\"A\",\"response\":\"" \o DigitOf(i) \o "\"}"
      [] kind = "utf8"      -> "data: {\"agent\":\"A\",\"response\":\"^~\"}"
      [] kind = "badjson"   -> "data: {\"agent\":"
      [] kind = "missing"   -> "data: {\"agent\":\"A\"}"
      [] kind = "nonstring" -> "data: {\"agent\":1,\"response\":\"" \o DigitOf(i) \o "\"}"
      [] kind = "empty"     -> "data: {\"agent\":\"\",\"response\":\"" \o DigitOf(i) \o "\"}"
      [] kind = "done"      -> "data: [DONE]"
      [] kind = "nospace"   -> "data:{\"agent\":\"C\",\"response\":\"" \o DigitOf(i) \o "\"}"
      [] kind = "nomarker"  -> "{\"agent\":\"D\",\"response\":\"" \o DigitOf(i) \o "\"}"
      [] kind = "detail"    -> "{\"detail\":\"overloaded\"}"
      [] kind = "plain"     -> "oops"

RECURSIVE BodyFrom(_, _, _)
BodyFrom(recs, term, i) ==
    IF i > Len(recs) THEN ""
    ELSE RecordText(recs[i], i)
         \o (IF i < Len(recs) \/ term THEN "\n\n" ELSE "")
         \o BodyFrom(recs, term, i + 1)

BodyOf(recs, term) == BodyFrom(recs, term, 1)

\* Bodies of at most n records of the given kinds, at most MaxSpecial of them
\* not a plain event.
StreamBodies(n, kinds) ==
    {r \in UNION {[1..m -> kinds] : m \in 0..n} :
        Cardinality({i \in DOMAIN r : r[i] # "event"}) <= MaxSpecial}

\* A failing response carries an error body or, the server being free to, a
\* record.
Responses(n, kinds) ==
    [status : {200}, sent : StreamBodies(n, kinds), terminated : BOOLEAN]
    \cup [status : {500}, sent : {<<"detail">>, <<"plain">>, <<"event">>},
          terminated : {FALSE}]
    \cup [status : {500}, sent : {<<"event">>}, terminated : {TRUE}]

(***************************************************************************)
(* UTF-8 decoding of the body bytes.                                       *)
(***************************************************************************)

\* The text of a byte string that ends with no incomplete sequence.
RECURSIVE DecodeComplete(_)
DecodeComplete(bytes) ==
    IF bytes = "" THEN ""
    ELSE IF CharAt(bytes, 1) = "^"
    THEN IF CharAt(bytes, 2) = "~" THEN "E" \o DecodeComplete(Substring(bytes, 2))
         ELSE "?" \o DecodeComplete(Substring(bytes, 1))
    ELSE IF CharAt(bytes, 1) = "~" THEN "?" \o DecodeComplete(Substring(bytes, 1))
    ELSE LET hits == {i \in 1..Len(bytes) : SubSeq(bytes, i, i) \in {"^", "~"}} IN
         IF hits = {} THEN bytes
         ELSE LET stop == CHOOSE i \in hits : \A j \in hits : i <= j IN
              Prefix(bytes, stop - 1) \o DecodeComplete(Substring(bytes, stop - 1))

\* decoder.decode(value, { stream: true }) (part_000 line 97) with `pending`
\* the bytes the decoder holds back: [text, pending].  A trailing lead byte
\* is held back until its continuation arrives.
DecodeStream(pending, value) ==
    LET bytes == pending \o value IN
    IF bytes # "" /\ CharAt(bytes, Len(bytes)) = "^"
    THEN [text |-> DecodeComplete(Prefix(bytes, Len(bytes) - 1)), pending |-> "^"]
    ELSE [text |-> DecodeComplete(bytes), pending |-> ""]

\* xhr.responseText after n bytes of the body: the browser decodes the bytes
\* received so far, an incomplete trailing sequence not yet showing.
ResponseTextAt(bytes, n) == DecodeStream("", Prefix(bytes, n)).text

(***************************************************************************)
(* State.                                                                  *)
(***************************************************************************)
VARIABLES
    variant,            \* "xhr": geminiservices.ts, "reader": unnamed/part_000
    status, sent, terminated, body,     \* the response the server gives
    fragmentEnds,       \* the byte counts at which a fragment of the body may end
    received,           \* bytes of the body the transport has delivered
    readyState,         \* xhr.readyState
    responseText,       \* xhr.responseText
    queue,              \* queue: QueueItem[]
    resolvePromise,     \* "null" or "set": the resolver of `promise`
    promise,            \* state of the promise held in `promise`
    lastResponseLength, \* lastResponseLength
    abortCalls,         \* number of calls of xhr.abort()
    xhrOutcome,         \* how the request ended: "load", "error", "abort", or "pending"
    errorAt,            \* Len(results) when xhr.onerror fired, -1 before
    stream,             \* state of response.body
    decoderPending,     \* bytes the TextDecoder holds back
    yieldAt,            \* the yield the reader generator is suspended at
    buffer,             \* buffer
    gen,                \* where the async generator stands
    pull,               \* "idle", or "pending": a next() not yet settled
    results,            \* what the consumer's calls settled with, in order
    streamState         \* Active, Completed, Errored or Cancelled

Scenario == <<variant, status, sent, terminated, body, fragmentEnds>>
XhrVars == <<readyState, responseText, queue, resolvePromise, promise,
             lastResponseLength, abortCalls, xhrOutcome, errorAt>>
ReaderVars == <<stream, decoderPending, yieldAt>>
vars == <<Scenario, received, XhrVars, ReaderVars, buffer, gen, pull, results,
          streamState>>

MaxLateCalls == 1

\* What a settled call of the consumer is recorded as.
Yielded(e) == [out |-> "value", value |-> e]
Finished == [out |-> "done"]
Failed(msg) == [out |-> "error", message |-> msg]

\* The calls the consumer has made on the completed generator: those after
\* the first one that settled with done or an error.
LateCalls ==
    LET ends == {i \in 1..Len(results) : results[i].out # "value"} IN
    IF ends = {} THEN 0
    ELSE Len(results) - (CHOOSE i \in ends : \A j \in ends : i <= j)

\* The consumer calls next() or return() on a generator that has completed.
CallCompleted ==
    /\ pull = "idle" /\ LateCalls < MaxLateCalls
    /\ gen = "completed"
    /\ results' = Append(results, Finished)
    /\ UNCHANGED <<Scenario, received, XhrVars, ReaderVars, buffer, gen, pull,
                   streamState>>

(***************************************************************************)
(* geminiservices.ts, runQueryStream: the closure state as a record        *)
(* [queue, resolvePromise, promise, buffer, lastResponseLength].           *)
(***************************************************************************)

Closure == [queue |-> queue, resolvePromise |-> resolvePromise, promise |-> promise,
            buffer |-> buffer, lastResponseLength |-> lastResponseLength]

SetClosure(c) ==
    /\ queue' = c.queue
    /\ resolvePromise' = c.resolvePromise
    /\ promise' = c.promise
    /\ buffer' = c.buffer
    /\ lastResponseLength' = c.lastResponseLength

ValueItem(e) == [type |-> "value", value |-> e]
DoneItem == [type |-> "done"]
ErrorItem == [type |-> "error", error |-> "The Force is disturbed. XHR request failed."]

\* queue.push(item) (line 73)
QueuePush(q, item) == Append(q, item)

\* An enqueue that never resolves the waiter.
EnqueueNoSignal(c, item) == [c EXCEPT !.queue = QueuePush(c.queue, item)]

\* enqueueAndSignal (lines 72-78)
EnqueueAndSignal(c, item) ==
    [c EXCEPT !.queue = QueuePush(c.queue, item),
              !.promise = IF c.resolvePromise = "set" THEN "resolved" ELSE @,
              !.resolvePromise = "null"]

\* message.split('\n').find(line => line.startsWith('data:')) (line 94); ""
\* stands for undefined (a line that is found is never empty).
RECURSIVE FindDataLine(_, _)
FindDataLine(lines, i) ==
    IF i > Len(lines) THEN ""
    ELSE IF StartsWith(lines[i], "data:") THEN lines[i]
    ELSE FindDataLine(lines, i + 1)

\* dataLine.substring(6).trim() (line 96)
JsonStrOf(dataLine) == Trim(Substring(dataLine, 6))

\* One framed message to the event it enqueues, if any (lines 94-107).
MessageEvent(message) ==
    LET dataLine == FindDataLine(SplitLines(message), 1) IN
    IF dataLine = "" THEN NoEvent
    ELSE LET jsonStr == JsonStrOf(dataLine) IN
         IF jsonStr = "" THEN NoEvent
         ELSE LET parsed == JsonParse(jsonStr) IN
              IF parsed.ok /\ IsStreamEvent(parsed.val)
              THEN SomeEvent(EventOf(parsed.val)) ELSE NoEvent

\* buffer.substring(boundary + 2) (line 92); boundary is 1-based here.
AfterBoundary(buf, boundary) == Substring(buf, boundary + 1)

\* The while loop of processBuffer (lines 89-109).
RECURSIVE FrameLoop(_)
FrameLoop(c) ==
    LET boundary == IndexOf(c.buffer, "\n\n") IN
    IF boundary = 0 THEN c
    ELSE LET message == Prefix(c.buffer, boundary - 1)
             rest == [c EXCEPT !.buffer = AfterBoundary(c.buffer, boundary)]
             ev == MessageEvent(message)
         IN  FrameLoop(IF ev.some THEN EnqueueAndSignal(rest, ValueItem(ev.event))
                       ELSE rest)

\* A decoder that keeps only the newest fragment.
AppendTextReset(buf, newText) == newText

\* buffer += newText (line 85)
AppendText(buf, newText) == buf \o newText

\* A processBuffer that appends the whole response text at every call.
ProcessBufferWholeText(c, text) ==
    FrameLoop([c EXCEPT !.buffer = AppendText(c.buffer, text),
                        !.lastResponseLength = Len(text)])

\* processBuffer (lines 83-110), reading xhr.responseText = text.
ProcessBuffer(c, text) ==
    LET newText == Substring(text, c.lastResponseLength) IN
    FrameLoop([c EXCEPT !.buffer = AppendText(c.buffer, newText),
                        !.lastResponseLength = Len(text)])

\* A finally block that aborts only before the body starts to arrive.
InFlightBeforeLoading(rs) == rs > 0 /\ rs < 3

\* xhr.readyState > 0 && xhr.readyState < 4 (line 164)
InFlight(rs) == rs > 0 /\ rs < 4

\* queue.shift() (line 151): the queue it leaves.
QueueShift(q) == Tail(q)

\* A cleanup whose onabort handler calls xhr.abort() again.
FinallyReabort(c) ==
    IF InFlight(readyState)
    THEN /\ abortCalls' = abortCalls + 2
         /\ readyState' = 0
         /\ responseText' = ""
         /\ xhrOutcome' = "abort"
         /\ SetClosure(EnqueueAndSignal(c, DoneItem))
    ELSE /\ SetClosure(c)
         /\ UNCHANGED <<abortCalls, readyState, responseText, xhrOutcome>>

\* The finally block (lines 160-167) on closure c.  xhr.abort() on a request
\* in flight fires onabort within the call (lines 128-130), then leaves the
\* request UNSENT with an empty responseText.
Finally(c) ==
    IF InFlight(readyState)
    THEN /\ abortCalls' = abortCalls + 1
         /\ readyState' = 0
         /\ responseText' = ""
         /\ xhrOutcome' = "abort"
         /\ SetClosure(EnqueueAndSignal(c, DoneItem))
    ELSE /\ SetClosure(c)
         /\ UNCHANGED <<abortCalls, readyState, responseText, xhrOutcome>>

\* The generator body from the top of its loop (lines 142-159) on closure c,
\* up to the await, yield, return or throw that ends the step.
GenRun(c) ==
    IF Len(c.queue) = 0
    THEN /\ SetClosure(c)
         /\ gen' = "awaiting"
         /\ pull' = "pending"
         /\ UNCHANGED <<results, streamState, abortCalls, readyState, responseText,
                        xhrOutcome>>
    ELSE LET item == Head(c.queue)
             c1 == [c EXCEPT !.queue = QueueShift(c.queue)]
         IN  /\ pull' = "idle"
             /\ CASE item.type = "error" ->
                       /\ Finally(c1)
                       /\ gen' = "completed"
                       /\ streamState' = "Errored"
                       /\ results' = Append(results, Failed(item.error))
                  [] item.type = "done" ->
                       /\ Finally(c1)
                       /\ gen' = "completed"
                       /\ streamState' = "Completed"
                       /\ results' = Append(results, Finished)
                  [] item.type = "value" ->
                       /\ SetClosure(c1)
                       /\ gen' = "suspendedYield"
                       /\ results' = Append(results, Yielded(item.value))
                       /\ UNCHANGED <<streamState, abortCalls, readyState, responseText,
                                      xhrOutcome>>

\* The continuation of `await promise` is a microtask: once the promise is
\* resolved it runs before any other callback and before the consumer.
MicrotaskPending == variant = "xhr" /\ gen = "awaiting" /\ promise = "resolved"

XhrIdle == variant = "xhr" /\ ~MicrotaskPending

(***************************************************************************)
(* geminiservices.ts: the XHR callbacks.                                   *)
(***************************************************************************)

\* The response headers arrive: OPENED -> HEADERS_RECEIVED.
XhrHeaders ==
    /\ XhrIdle
    /\ readyState = 1
    /\ readyState' = 2
    /\ UNCHANGED <<Scenario, received, responseText, queue, resolvePromise, promise,
                   lastResponseLength, abortCalls, xhrOutcome, errorAt, ReaderVars,
                   buffer, gen, pull, results, streamState>>

\* k more bytes arrive and xhr.onprogress = processBuffer runs (line 116).
XhrProgress(k) ==
    /\ XhrIdle
    /\ readyState \in {2, 3}
    /\ received + k \in fragmentEnds
    /\ readyState' = 3
    /\ received' = received + k
    /\ \E text \in {ResponseTextAt(body, received + k)} :
          /\ responseText' = text
          /\ \E c \in {ProcessBuffer(Closure, text)} : SetClosure(c)
    /\ UNCHANGED <<Scenario, abortCalls, xhrOutcome, errorAt, ReaderVars, gen, pull,
                   results, streamState>>

\* An onload that frames what arrived but forgets the end marker.
XhrLoadNoMarker ==
    /\ XhrIdle
    /\ readyState \in {2, 3}
    /\ readyState' = 4
    /\ received' = Len(body)
    /\ \E text \in {ResponseTextAt(body, Len(body))} :
          /\ responseText' = text
          /\ \E c \in {ProcessBuffer(Closure, text)} : SetClosure(c)
    /\ xhrOutcome' = "load"
    /\ UNCHANGED <<Scenario, abortCalls, errorAt, ReaderVars, gen, pull, results,
                   streamState>>

\* The rest of the body arrives and xhr.onload runs (lines 118-121).
XhrLoad ==
    /\ XhrIdle
    /\ readyState \in {2, 3}
    /\ readyState' = 4
    /\ received' = Len(body)
    /\ \E text \in {ResponseTextAt(body, Len(body))} :
          /\ responseText' = text
          /\ \E c \in {EnqueueAndSignal(ProcessBuffer(Closure, text), DoneItem)} :
                SetClosure(c)
    /\ xhrOutcome' = "load"
    /\ UNCHANGED <<Scenario, abortCalls, errorAt, ReaderVars, gen, pull, results,
                   streamState>>

\* The network fails and xhr.onerror runs (lines 123-126); the response of a
\* failed request is empty.
XhrError ==
    /\ XhrIdle
    /\ InFlight(readyState)
    /\ readyState' = 4
    /\ responseText' = ""
    /\ SetClosure(EnqueueAndSignal(Closure, ErrorItem))
    /\ xhrOutcome' = "error"
    /\ errorAt' = Len(results)
    /\ UNCHANGED <<Scenario, received, abortCalls, ReaderVars, gen, pull, results,
                   streamState>>

\* An onabort that reports the abort as an error.
XhrAbortAsError ==
    /\ XhrIdle
    /\ InFlight(readyState)
    /\ readyState' = 4
    /\ responseText' = ""
    /\ SetClosure(EnqueueAndSignal(Closure, ErrorItem))
    /\ xhrOutcome' = "abort"
    /\ UNCHANGED <<Scenario, received, abortCalls, errorAt, ReaderVars, gen, pull,
                   results, streamState>>

\* The browser aborts the request and xhr.onabort runs (lines 128-130).
XhrAbort ==
    /\ XhrIdle
    /\ InFlight(readyState)
    /\ readyState' = 4
    /\ responseText' = ""
    /\ SetClosure(EnqueueAndSignal(Closure, DoneItem))
    /\ xhrOutcome' = "abort"
    /\ UNCHANGED <<Scenario, received, abortCalls, errorAt, ReaderVars, gen, pull,
                   results, streamState>>

(***************************************************************************)
(* geminiservices.ts: the generator and its consumer.  The consumer issues *)
(* one call at a time, as `for await` does.                                *)
(***************************************************************************)

\* The consumer calls next() on the suspended generator.
XhrNext ==
    /\ XhrIdle
    /\ pull = "idle"
    /\ gen \in {"suspendedStart", "suspendedYield"}
    /\ GenRun(Closure)
    /\ UNCHANGED <<Scenario, received, errorAt, ReaderVars>>

\* `await promise` resumes (lines 145-147) and the loop goes on.
XhrResume ==
    /\ MicrotaskPending
    /\ GenRun([Closure EXCEPT !.promise = "pending", !.resolvePromise = "set"])
    /\ UNCHANGED <<Scenario, received, errorAt, ReaderVars>>

\* The consumer calls return() on the suspended generator: before the first
\* next() the body never ran, so no finally block runs; at the yield the
\* finally block runs.
XhrReturn ==
    /\ XhrIdle
    /\ pull = "idle"
    /\ gen \in {"suspendedStart", "suspendedYield"}
    /\ results' = Append(results, Finished)
    /\ gen' = "completed"
    /\ streamState' = "Cancelled"
    /\ IF gen = "suspendedYield"
       THEN Finally(Closure)
       ELSE UNCHANGED <<readyState, responseText, queue, resolvePromise, promise,
                        buffer, lastResponseLength, abortCalls, xhrOutcome>>
    /\ UNCHANGED <<Scenario, received, errorAt, ReaderVars, pull>>

\* The consumer calls throw() on the suspended generator: before the first
\* next() it completes without running the body; at the yield the exception
\* passes through the finally block.  Either way the call rejects.
XhrThrow ==
    /\ XhrIdle
    /\ pull = "idle"
    /\ gen \in {"suspendedStart", "suspendedYield"}
    /\ results' = Append(results, Failed("thrown by the consumer"))
    /\ gen' = "completed"
    /\ streamState' = "Cancelled"
    /\ IF gen = "suspendedYield"
       THEN Finally(Closure)
       ELSE UNCHANGED <<readyState, responseText, queue, resolvePromise, promise,
                        buffer, lastResponseLength, abortCalls, xhrOutcome>>
    /\ UNCHANGED <<Scenario, received, errorAt, ReaderVars, pull>>

\* The consumer calls throw() on the generator that has completed: the call
\* rejects and nothing else happens.
ThrowCompleted ==
    /\ variant = "xhr"
    /\ pull = "idle" /\ LateCalls < MaxLateCalls
    /\ gen = "completed"
    /\ results' = Append(results, Failed("thrown by the consumer"))
    /\ UNCHANGED <<Scenario, received, XhrVars, ReaderVars, buffer, gen, pull,
                   streamState>>

(***************************************************************************)
(* unnamed/part_000, runQueryStream: fetch and the body reader.            *)
(***************************************************************************)

\* response.ok, and whether response.body is a stream (a null body status
\* has none).
ResponseOk(st) == st >= 200 /\ st <= 299
HasBody(st) == st \notin {204, 205, 304}

\* A parseChunk that returns null for a line without the marker.
ParseChunkMarkedOnly(line0) ==
    IF ~StartsWith(line0, "data: ") THEN NoEvent
    ELSE LET line == Trim(Substring(line0, 6)) IN
         IF Len(line) = 0 \/ line = "[DONE]" THEN NoEvent
         ELSE LET parsed == JsonParse(line) IN
              IF parsed.ok /\ IsStreamEvent(parsed.val)
              THEN SomeEvent(EventOf(parsed.val)) ELSE NoEvent

\* parseChunk (lines 127-149)
ParseChunk(line0) ==
    LET line == IF StartsWith(line0, "data: ") THEN Trim(Substring(line0, 6)) ELSE line0
    IN  IF Len(line) = 0 \/ line = "[DONE]" THEN NoEvent
        ELSE LET parsed == JsonParse(line) IN
             IF parsed.ok /\ IsStreamEvent(parsed.val)
             THEN SomeEvent(EventOf(parsed.val)) ELSE NoEvent

\* buffer.slice(newlineIndex + 1) (line 106); newlineIndex is 1-based here.
AfterNewline(buf, newlineIndex) == Substring(buf, newlineIndex)

\* The inner while loop (lines 102-114) up to its first yield or its end:
\* [some, event, buffer].
RECURSIVE LineLoop(_)
LineLoop(buf) ==
    LET newlineIndex == IndexOf(buf, "\n") IN
    IF newlineIndex = 0 THEN [some |-> FALSE, buffer |-> buf]
    ELSE LET line == Trim(Prefix(buf, newlineIndex - 1))
             rest == AfterNewline(buf, newlineIndex)
             chunk == IF line # "" THEN ParseChunk(line) ELSE NoEvent
         IN  IF chunk.some
             THEN [some |-> TRUE, event |-> chunk.event, buffer |-> rest]
             ELSE LineLoop(rest)

\* A read loop that breaks at done without looking at the buffer.
FinalChunkDropped(buf) == NoEvent

\* The done branch of the read loop (lines 85-94): the chunk it yields, if any.
FinalChunk(buf) == IF Len(buf) > 0 THEN ParseChunk(buf) ELSE NoEvent

\* errorData?.detail || `HTTP error! status: ${response.status}` (lines 33, 75)
\* for errorData the value parsed from the error body, or null.
StringOf(v) ==
    CASE v.kind \in {"string", "number", "bool"} -> v.str
      [] v.kind = "object" -> "[object Object]"
      [] OTHER -> ""

\* An error path that never looks at the error body.
DetailOfStatusOnly(errorData, st) == "HTTP error! status: " \o ToString(st)

DetailOf(errorData, st) ==
    LET detail == IF errorData.kind = "null" THEN [kind |-> "undefined"]
                  ELSE Member(errorData, "detail")
    IN  IF Truthy(detail) THEN StringOf(detail)
        ELSE "HTTP error! status: " \o ToString(st)

\* response.json().catch(() => null) (line 74): the body is read to its end,
\* decoded and parsed; a failure of either gives null.
ErrorDataOf(bytes, readOk) ==
    LET parsed == JsonParse(DecodeStream("", bytes).text) IN
    IF readOk /\ parsed.ok THEN parsed.val ELSE [kind |-> "null"]

\* The generator runs the inner loop on buffer buf, then yields or reads on.
ReaderLines(buf) ==
    \E r \in {LineLoop(buf)} :
        /\ buffer' = r.buffer
        /\ IF r.some
           THEN /\ gen' = "suspendedYield"
                /\ yieldAt' = "line"
                /\ pull' = "idle"
                /\ results' = Append(results, Yielded(r.event))
           ELSE /\ gen' = "awaitRead"
                /\ pull' = "pending"
                /\ UNCHANGED <<yieldAt, results>>

\* The generator throws: the catch block logs and rethrows (lines 116-119).
ReaderThrow(msg) ==
    /\ gen' = "completed"
    /\ pull' = "idle"
    /\ streamState' = "Errored"
    /\ results' = Append(results, Failed(msg))

\* The consumer calls next() on the suspended generator.
ReaderNext ==
    /\ variant = "reader"
    /\ pull = "idle"
    /\ gen \in {"suspendedStart", "suspendedYield"}
    /\ IF gen = "suspendedStart"
       THEN /\ gen' = "awaitFetch"
            /\ pull' = "pending"
            /\ UNCHANGED <<buffer, yieldAt, results, streamState>>
       ELSE IF yieldAt = "line"
       THEN ReaderLines(buffer) /\ UNCHANGED streamState
       ELSE /\ gen' = "completed"
            /\ streamState' = "Completed"
            /\ results' = Append(results, Finished)
            /\ UNCHANGED <<buffer, yieldAt, pull>>
    /\ UNCHANGED <<Scenario, received, XhrVars, stream, decoderPending>>

\* fetch resolves with the response (lines 59-81).
ReaderFetch ==
    /\ variant = "reader"
    /\ gen = "awaitFetch"
    /\ gen' = IF ~ResponseOk(status) \/ ~HasBody(status) THEN "awaitJson" ELSE "awaitRead"
    /\ buffer' = ""
    /\ UNCHANGED <<Scenario, received, XhrVars, ReaderVars, pull, results, streamState>>

\* fetch rejects: the request never got a response.
ReaderFetchFail ==
    /\ variant = "reader"
    /\ gen = "awaitFetch"
    /\ ReaderThrow("TypeError: Failed to fetch")
    /\ stream' = "errored"
    /\ UNCHANGED <<Scenario, received, XhrVars, decoderPending, yieldAt, buffer>>

\* The error path (lines 73-77) once response.json() has settled.
ReaderErrorBody(readOk) ==
    /\ variant = "reader"
    /\ gen = "awaitJson"
    /\ ReaderThrow("The Force is disturbed. API stream request failed: "
                   \o DetailOf(ErrorDataOf(body, readOk), status))
    /\ received' = IF readOk THEN Len(body) ELSE received
    /\ stream' = IF readOk THEN "closed" ELSE "errored"
    /\ UNCHANGED <<Scenario, XhrVars, decoderPending, yieldAt, buffer>>

\* reader.read() resolves with the next k bytes (lines 84, 97-114).
ReaderRead(k) ==
    /\ variant = "reader"
    /\ gen = "awaitRead" /\ stream = "readable"
    /\ k >= 1 /\ received + k \in fragmentEnds
    /\ received' = received + k
    /\ \E d \in {DecodeStream(decoderPending, SubSeq(body, received + 1, received + k))} :
          /\ decoderPending' = d.pending
          /\ ReaderLines(buffer \o d.text)
    /\ UNCHANGED <<Scenario, XhrVars, stream, streamState>>

\* reader.read() resolves with done (lines 85-94).
ReaderClose ==
    /\ variant = "reader"
    /\ gen = "awaitRead" /\ stream = "readable"
    /\ received = Len(body)
    /\ stream' = "closed"
    /\ pull' = "idle"
    /\ \E finalChunk \in {FinalChunk(buffer)} :
          IF finalChunk.some
          THEN /\ gen' = "suspendedYield"
               /\ yieldAt' = "final"
               /\ results' = Append(results, Yielded(finalChunk.event))
               /\ UNCHANGED streamState
          ELSE /\ gen' = "completed"
               /\ streamState' = "Completed"
               /\ results' = Append(results, Finished)
               /\ UNCHANGED yieldAt
    /\ UNCHANGED <<Scenario, received, XhrVars, decoderPending, buffer>>

\* reader.read() rejects: the connection failed.
ReaderReadError ==
    /\ variant = "reader"
    /\ gen = "awaitRead" /\ stream = "readable"
    /\ ReaderThrow("TypeError: network error")
    /\ stream' = "errored"
    /\ UNCHANGED <<Scenario, received, XhrVars, decoderPending, yieldAt, buffer>>

\* The consumer calls return() on the suspended generator: it completes; the
\* try statement has no finally block and nothing cancels the reader.
ReaderReturn ==
    /\ variant = "reader"
    /\ pull = "idle"
    /\ gen \in {"suspendedStart", "suspendedYield"}
    /\ gen' = "completed"
    /\ streamState' = "Cancelled"
    /\ results' = Append(results, Finished)
    /\ UNCHANGED <<Scenario, received, XhrVars, ReaderVars, buffer, pull>>

(***************************************************************************)
(* runQuery (lines 16-50, the same in both files), as variant "invoke":    *)
(* gen is the position of the async function, results the settlement of    *)
(* the promise it returned, stream the state of the response body.         *)
(***************************************************************************)

Resolved(v) == [out |-> "resolved", value |-> v]

InvokeKinds == {"content", "emptycontent", "numcontent", "nullcontent", "nocontent",
                "nooutput", "nulloutput", "nullresult", "detail", "plain"}

InvokeText(kind) ==
    CASE kind = "content"      -> "{\"output\":{\"content\":\"hi\"}}"
      [] kind = "emptycontent" -> "{\"output\":{\"content\":\"\"}}"
      [] kind = "numcontent"   -> "{\"output\":{\"content\":1}}"
      [] kind = "nullcontent"  -> "{\"output\":{\"content\":null}}"
      [] kind = "nocontent"    -> "{\"output\":{}}"
      [] kind = "nooutput"     -> "{\"other\":1}"
      [] kind = "nulloutput"   -> "{\"output\":null}"
      [] kind = "nullresult"   -> "null"
      [] kind = "detail"       -> "{\"detail\":\"overloaded\"}"
      [] kind = "plain"        -> "oops"

\* A lookup that forgets the `output` level.
ContentOfResult(result) == Member(result, "content")

\* result?.output?.content (line 38)
ContentOf(result) ==
    LET output == Member(result, "output") IN
    IF output.kind \in {"null", "undefined"} THEN [kind |-> "undefined"]
    ELSE Member(output, "content")

\* The async function settles its promise.
InvokeSettle(result) ==
    /\ gen' = "completed"
    /\ pull' = "idle"
    /\ results' = Append(results, result)
    /\ streamState' = IF result.out = "resolved" THEN "Completed" ELSE "Errored"

\* fetch resolves with the response (lines 18-31).
InvokeFetch ==
    /\ variant = "invoke"
    /\ gen = "awaitFetch"
    /\ gen' = IF ~ResponseOk(status) THEN "awaitJson" ELSE "awaitResult"
    /\ UNCHANGED <<Scenario, received, XhrVars, ReaderVars, buffer, pull, results,
                   streamState>>

\* fetch rejects; the catch block rethrows (lines 46-49).
InvokeFetchFail ==
    /\ variant = "invoke"
    /\ gen = "awaitFetch"
    /\ InvokeSettle(Failed("TypeError: Failed to fetch"))
    /\ stream' = "errored"
    /\ UNCHANGED <<Scenario, received, XhrVars, decoderPending, yieldAt, buffer>>

\* The error path (lines 31-35) once response.json() has settled.
InvokeErrorBody(readOk) ==
    /\ variant = "invoke"
    /\ gen = "awaitJson"
    /\ InvokeSettle(Failed("The Force is disturbed. API request failed: "
                           \o DetailOf(ErrorDataOf(body, readOk), status)))
    /\ stream' = IF readOk THEN "closed" ELSE "errored"
    /\ UNCHANGED <<Scenario, received, XhrVars, decoderPending, yieldAt, buffer>>

\* The success path (lines 37-44) once response.json() has settled: it
\* rejects when the body cannot be read or is not JSON.
InvokeResult(readOk) ==
    /\ variant = "invoke"
    /\ gen = "awaitResult"
    /\ stream' = IF readOk THEN "closed" ELSE "errored"
    /\ \E parsed \in {JsonParse(DecodeStream("", body).text)} :
          IF ~readOk THEN InvokeSettle(Failed("TypeError: network error"))
          ELSE IF ~parsed.ok THEN InvokeSettle(Failed("SyntaxError: not valid JSON"))
          ELSE \E content \in {ContentOf(parsed.val)} :
                  IF content.kind # "string"
                  THEN InvokeSettle(Failed("Invalid response format from the AI. The 'output.content' field is missing or not a string."))
                  ELSE InvokeSettle(Resolved(content.str))
    /\ UNCHANGED <<Scenario, received, XhrVars, decoderPending, yieldAt, buffer>>

(***************************************************************************)
(* Specifications.  Spec: every callback, read and consumer call in any    *)
(* order, on bodies of plain and malformed records whose fragments end     *)
(* next to a newline or a space.  SpecChunks: fragments of any size.       *)
(* SpecKinds: records of every kind.                                       *)
(***************************************************************************)

MaxChunkRecords == 2

\* Where a fragment of body b may end when fragments are coarse: n bytes in.
CoarseEnds(b) ==
    {n \in 0..Len(b) : \/ n = 0 \/ n = Len(b)
                       \/ CharAt(b, n) \in {"\n", " "}
                       \/ CharAt(b, n + 1) = "\n"}

AllEnds(b) == 0..Len(b)

InitWith(rs, coarse) ==
    /\ variant \in {"xhr", "reader"}
    /\ \E r \in rs :
          /\ status = r.status
          /\ sent = r.sent
          /\ terminated = r.terminated
          /\ body = BodyOf(r.sent, r.terminated)
          /\ fragmentEnds = IF coarse THEN CoarseEnds(BodyOf(r.sent, r.terminated))
                            ELSE AllEnds(BodyOf(r.sent, r.terminated))
    /\ received = 0
    /\ readyState = IF variant = "xhr" THEN 1 ELSE 0
    /\ responseText = ""
    /\ queue = <<>>
    /\ resolvePromise = "set"
    /\ promise = "pending"
    /\ lastResponseLength = 0
    /\ abortCalls = 0
    /\ xhrOutcome = "pending"
    /\ errorAt = -1
    /\ stream = "readable"
    /\ decoderPending = ""
    /\ yieldAt = "line"
    /\ buffer = ""
    /\ gen = "suspendedStart"
    /\ pull = "idle"
    /\ results = <<>>
    /\ streamState = "Active"

Init ==
    InitWith(Responses(MaxRecords, {"event", "missing"})
             \cup {[status |-> 204, sent |-> <<>>, terminated |-> FALSE]}, TRUE)

Next ==
    \/ XhrHeaders
    \/ \E k \in 0..Len(body) : XhrProgress(k)
    \/ XhrLoad
    \/ XhrError
    \/ XhrAbort
    \/ XhrNext
    \/ XhrResume
    \/ XhrReturn
    \/ XhrThrow
    \/ ThrowCompleted
    \/ ReaderNext
    \/ ReaderFetch
    \/ ReaderFetchFail
    \/ \E readOk \in BOOLEAN : ReaderErrorBody(readOk)
    \/ \E k \in 1..Len(body) : ReaderRead(k)
    \/ ReaderClose
    \/ ReaderReadError
    \/ ReaderReturn
    \/ CallCompleted

Spec == Init /\ [][Next]_vars

\* Spec with the continuation of `await promise` not put off forever: the
\* event loop runs a microtask that is ready.
SpecFair == Spec /\ WF_vars(XhrResume)

\* The XHR variant under a consumer that keeps calling next() and nothing
\* else, on a request that does not fail.  The consumer's next call and the
\* continuation of `await promise` are not put off forever.
InitPull == Init /\ variant = "xhr"

NextPull ==
    \/ XhrHeaders
    \/ \E k \in 0..Len(body) : XhrProgress(k)
    \/ XhrLoad
    \/ XhrNext
    \/ XhrResume
    \/ CallCompleted

SpecPull == InitPull /\ [][NextPull]_vars /\ WF_vars(XhrNext) /\ WF_vars(XhrResume)

\* One call of runQuery, from the call to the settlement of its promise.
InitInvoke ==
    /\ variant = "invoke"
    /\ status \in {200, 201, 404, 500}
    /\ \E kind \in InvokeKinds :
          /\ sent = <<kind>>
          /\ body = InvokeText(kind)
    /\ terminated = FALSE
    /\ fragmentEnds = {}
    /\ received = 0
    /\ readyState = 0
    /\ responseText = ""
    /\ queue = <<>>
    /\ resolvePromise = "null"
    /\ promise = "pending"
    /\ lastResponseLength = 0
    /\ abortCalls = 0
    /\ xhrOutcome = "pending"
    /\ errorAt = -1
    /\ stream = "readable"
    /\ decoderPending = ""
    /\ yieldAt = "line"
    /\ buffer = ""
    /\ gen = "awaitFetch"
    /\ pull = "pending"
    /\ results = <<>>
    /\ streamState = "Active"

NextInvoke ==
    \/ InvokeFetch
    \/ InvokeFetchFail
    \/ \E readOk \in BOOLEAN : InvokeErrorBody(readOk)
    \/ \E readOk \in BOOLEAN : InvokeResult(readOk)

SpecInvoke == InitInvoke /\ [][NextInvoke]_vars

\* A consumer that only pulls, and starts once the request has ended.
InitChunks ==
    InitWith([status : {200},
              sent : StreamBodies(MaxChunkRecords, {"event", "utf8", "missing"}),
              terminated : BOOLEAN], FALSE)

NextChunks ==
    \/ XhrHeaders
    \/ \E k \in 0..Len(body) : XhrProgress(k)
    \/ XhrLoad
    \/ (readyState = 4 /\ XhrNext)
    \/ ReaderNext
    \/ ReaderFetch
    \/ \E k \in 1..Len(body) : ReaderRead(k)
    \/ ReaderClose

SpecChunks == InitChunks /\ [][NextChunks]_vars

\* A consumer that only pulls, at any time.
InitKinds ==
    InitWith([status : {200}, sent : StreamBodies(MaxRecords, RecordKinds),
              terminated : BOOLEAN], TRUE)

NextKinds ==
    \/ XhrHeaders
    \/ \E k \in 0..Len(body) : XhrProgress(k)
    \/ XhrLoad
    \/ XhrNext
    \/ XhrResume
    \/ ReaderNext
    \/ ReaderFetch
    \/ \E k \in 1..Len(body) : ReaderRead(k)
    \/ ReaderClose

SpecKinds == InitKinds /\ [][NextKinds]_vars

(***************************************************************************)
(* Properties.  The events a body is meant to give are read off the kinds  *)
(* of its records, not off the decoders.                                   *)
(***************************************************************************)

IsPrefix(a, b) == Len(a) <= Len(b) /\ SubSeq(b, 1, Len(a)) = a

\* The events the consumer was handed, in order.
YieldedValues ==
    LET vs == SelectSeq(results, LAMBDA r : r.out = "value") IN
    [i \in 1..Len(vs) |-> vs[i].value]

\* The events waiting in a queue, in order.
QueuedValues(q) ==
    LET vs == SelectSeq(q, LAMBDA item : item.type = "value") IN
    [i \in 1..Len(vs) |-> vs[i].value]

\* The events of the valid records among recs[i..], in order.
RECURSIVE ExpectedFrom(_, _)
ExpectedFrom(recs, i) ==
    IF i > Len(recs) THEN <<>>
    ELSE (CASE recs[i] = "event" -> <<[agent |-> "A", response |-> DigitOf(i)]>>
            [] recs[i] = "utf8"  -> <<[agent |-> "A", response |-> "E"]>>
            [] OTHER -> <<>>)
         \o ExpectedFrom(recs, i + 1)

ValidRecords == ExpectedFrom(sent, 1)

\* The XHR decoder on a text that arrives as one fragment.
OneFragment(text) ==
    ProcessBuffer([queue |-> <<>>, resolvePromise |-> "null", promise |-> "pending",
                   buffer |-> "", lastResponseLength |-> 0], text)

\* The reader's inner loop run to its end: the events it yields and the
\* buffer it leaves.
RECURSIVE DrainLines(_, _)
DrainLines(buf, evs) ==
    LET r == LineLoop(buf) IN
    IF r.some THEN DrainLines(r.buffer, Append(evs, r.event))
    ELSE [events |-> evs, buffer |-> r.buffer]

\* The reader on bytes that arrive as one chunk, followed or not by done.
OneChunk(bytes, atEnd) ==
    LET d == DrainLines(DecodeStream("", bytes).text, <<>>)
        fin == IF atEnd THEN FinalChunk(d.buffer) ELSE NoEvent
    IN  [events |-> d.events \o (IF fin.some THEN <<fin.event>> ELSE <<>>),
         buffer |-> d.buffer]

\* C1: however the body is split into fragments, the decoder of either
\* variant gives the events, in the order, that it gives when the same bytes
\* arrive as a single fragment, and it holds back the same pending text.
C1_RechunkInvariant ==
    /\ variant = "xhr" =>
          LET one == OneFragment(responseText) IN
          /\ YieldedValues \o QueuedValues(queue) = QueuedValues(one.queue)
          /\ buffer = one.buffer
          /\ streamState = "Completed" =>
                YieldedValues = QueuedValues(OneFragment(ResponseTextAt(body, Len(body))).queue)
    /\ variant = "reader" =>
          /\ IsPrefix(YieldedValues, OneChunk(body, TRUE).events)
          /\ (stream = "readable" /\ gen \in {"awaitRead", "suspendedYield"}) =>
                LET mine == DrainLines(buffer, <<>>)
                    one == OneChunk(Prefix(body, received), FALSE)
                IN  /\ YieldedValues \o mine.events = one.events
                    /\ mine.buffer = one.buffer
          /\ streamState = "Completed" => YieldedValues = OneChunk(body, TRUE).events

\* A fragment ended between the two newlines of a boundary, after a first
\* record was framed and queued.
C1_SplitBoundaryXhr ==
    /\ variant = "xhr"
    /\ Len(QueuedValues(queue)) = 1
    /\ buffer # "" /\ CharAt(buffer, Len(buffer)) = "\n"
    /\ IndexOf(buffer, "\n\n") = 0

\* C2: in the XHR variant, when the request loads with a valid record left
\* unterminated in the buffer, the consumer is handed that record's event as
\* the last event before the sequence ends.
C2_FlushOnLoad ==
    (/\ variant = "xhr" /\ xhrOutcome = "load" /\ ResponseOk(status)
     /\ ~terminated /\ sent # <<>> /\ sent[Len(sent)] = "event"
     /\ streamState = "Completed")
    => /\ YieldedValues # <<>>
       /\ YieldedValues[Len(YieldedValues)] = [agent |-> "A", response |-> DigitOf(Len(sent))]

\* C3: in the reader variant, when the body ends with content that has no
\* terminating newline, a valid trailing record is yielded once, as the last
\* event, and an invalid one gives nothing; the sequence then completes.
C3_FlushOnClose ==
    (/\ variant = "reader" /\ stream = "closed"
     /\ ResponseOk(status) /\ HasBody(status)
     /\ ~terminated /\ sent # <<>>)
    => /\ IsPrefix(YieldedValues, ValidRecords)
       /\ gen = "suspendedYield" =>
             (sent[Len(sent)] = "event" /\ YieldedValues = ValidRecords)
       /\ streamState = "Completed" => YieldedValues = ValidRecords

C3_TrailingYielded ==
    /\ variant = "reader" /\ stream = "closed" /\ status = 200
    /\ ~terminated /\ Len(sent) = 2 /\ sent[2] = "event"
    /\ streamState = "Completed"
    /\ Len(YieldedValues) = Len(ValidRecords)

\* C4: in the XHR variant, a return() at a yield while the request is in
\* readyState 1..3 calls xhr.abort() and leaves the request out of flight, and
\* once the stream is cancelled no call hands the consumer another event,
\* whatever the queue holds or receives.
C4_ReturnAborts ==
    [][/\ (/\ variant = "xhr" /\ gen = "suspendedYield"
           /\ streamState = "Active" /\ streamState' = "Cancelled"
           /\ readyState \in 1..3)
          => (abortCalls' = abortCalls + 1 /\ readyState' \notin 1..3)
       /\ (variant = "xhr" /\ streamState = "Cancelled")
          => (streamState' = "Cancelled" /\ YieldedValues' = YieldedValues)
      ]_vars

\* Cancelled after the first of three events with the other two in the queue,
\* and a later call made.
C4_CancelledWithQueued ==
    /\ variant = "xhr" /\ streamState = "Cancelled"
    /\ abortCalls = 1
    /\ Len(sent) = 3 /\ Len(YieldedValues) = 1
    /\ Len(QueuedValues(queue)) = 2
    /\ LateCalls = 1

\* C5: in the reader variant, once the consumer has cancelled after a yielded
\* event with part of the body still to come, the body reader is no longer
\* open for reading.
C5_ReturnCancelsReader ==
    (/\ variant = "reader" /\ streamState = "Cancelled"
     /\ YieldedValues # <<>> /\ received < Len(body))
    => stream # "readable"

\* C6: in the XHR variant, in every terminal stream state the request is not
\* in readyState 1..3.
C6_TerminalReleasesXhr ==
    (variant = "xhr" /\ streamState \in {"Completed", "Errored", "Cancelled"})
    => readyState \notin 1..3

\* C7: in the XHR variant, when onerror fires on a stream that has not ended
\* and that the consumer does not cancel, the first call settled after it
\* fails with the error and no later call yields an event.
C7_ErrorIsNext ==
    (/\ variant = "xhr" /\ errorAt >= 0 /\ streamState # "Cancelled"
     /\ \A i \in 1..errorAt : results[i].out = "value")
    => /\ \A i \in (errorAt + 1)..Len(results) : results[i].out # "value"
       /\ Len(results) > errorAt => results[errorAt + 1].out = "error"

\* C8: in the XHR variant, the events yielded are always a prefix of the
\* valid records of the body, in order, and when the stream completes after
\* the load they are all of them.
C8_OrderedExactlyOnce ==
    variant = "xhr" =>
       /\ IsPrefix(YieldedValues \o QueuedValues(queue), ValidRecords)
       /\ (xhrOutcome = "load" /\ ResponseOk(status) /\ streamState = "Completed")
          => YieldedValues = ValidRecords

\* C9: in both variants, on a body of plain and malformed records that holds
\* a malformed one, only the valid records yield events, no error reaches the
\* consumer, and a stream that completes has yielded every valid record.
C9_SkipMalformed ==
    (/\ \A i \in DOMAIN sent : sent[i] \in {"event"} \cup MalformedKinds
     /\ \E i \in DOMAIN sent : sent[i] \in MalformedKinds)
    => /\ IsPrefix(YieldedValues, ValidRecords)
       /\ streamState # "Errored"
       /\ streamState = "Completed" => YieldedValues = ValidRecords

\* C10: in the XHR variant, a response that loads with a status outside
\* 200..299 ends the stream Errored, with no event yielded.
C10_NonSuccessErrors ==
    (/\ variant = "xhr" /\ xhrOutcome = "load" /\ ~ResponseOk(status)
     /\ gen = "completed" /\ streamState # "Cancelled")
    => (streamState = "Errored" /\ YieldedValues = <<>>)

\* C11: in the reader variant, a response that is not ok or has no body
\* never yields an event, and the first call fails with the message built
\* from the detail of the error body when the body was read and is the JSON
\* object with a detail, and from the status otherwise.
C11_NonSuccessFails ==
    [][(variant = "reader" /\ (status \notin 200..299 \/ status \in {204, 205, 304}))
       => /\ YieldedValues' = <<>>
          /\ (gen = "awaitFetch" /\ gen' \notin {"awaitFetch", "completed"})
             => gen' = "awaitJson"
          /\ (gen = "awaitJson" /\ gen' # "awaitJson")
             => /\ streamState' = "Errored"
                /\ results' = <<Failed("The Force is disturbed. API stream request failed: "
                      \o (IF sent = <<"detail">> /\ stream' = "closed" THEN "overloaded"
                          ELSE "HTTP error! status: " \o ToString(status)))>>
      ]_vars

C11_DetailReported ==
    /\ variant = "reader" /\ status = 500 /\ sent = <<"detail">>
    /\ results = <<Failed("The Force is disturbed. API stream request failed: overloaded")>>

\* C12: in the XHR variant, whatever the consumer calls and whenever the
\* callbacks fire, xhr.abort() is called at most once, by the call that
\* completes the generator while the request is in readyState 1..3, and
\* no call made after that calls it again.
C12_AbortAtMostOnce ==
    /\ abortCalls <= 1
    /\ abortCalls = 1 => (variant = "xhr" /\ gen = "completed" /\ readyState \notin 1..3)

\* The request was aborted by the cleanup, onabort has put its end marker in
\* the queue, and the consumer has made a further call.
C12_CallAfterAbort ==
    /\ variant = "xhr" /\ abortCalls = 1 /\ xhrOutcome = "abort"
    /\ queue # <<>> /\ queue[Len(queue)] = DoneItem
    /\ LateCalls = 1

\* C13: in the XHR variant under a consumer that keeps pulling, once onload
\* has fired the events yielded and those still queued stay the same
\* sequence, the generator goes on to complete with the queue drained as
\* Completed, and every call after the one that reported done reports done.
C13_LoadThenDone ==
    /\ [][xhrOutcome = "load"
          => YieldedValues' \o QueuedValues(queue') = YieldedValues \o QueuedValues(queue)]_vars
    /\ [](gen = "completed"
          => /\ streamState = "Completed" /\ queue = <<>>
             /\ \A i \in 1..Len(results) :
                   (i > Len(YieldedValues)) = (results[i] = Finished))
    /\ (xhrOutcome = "load") ~> (gen = "completed")

\* Three events pulled after the load, done reported, and one more call.
C13_DrainedAfterLoad ==
    /\ xhrOutcome = "load" /\ gen = "completed"
    /\ Len(YieldedValues) = 3 /\ LateCalls = 1

\* C14: in both variants, on a body of plain records and `[DONE]` records,
\* only the plain records yield events, no error reaches the consumer, the
\* generator completes only once the transport has signalled the end, and a
\* stream that completes has yielded every plain record.
C14_DoneIsNoOp ==
    (/\ \A i \in DOMAIN sent : sent[i] \in {"event", "done"}
     /\ \E i \in DOMAIN sent : sent[i] = "done")
    => /\ IsPrefix(YieldedValues, ValidRecords)
       /\ streamState # "Errored"
       /\ gen = "completed" =>
             IF variant = "xhr" THEN xhrOutcome = "load" ELSE stream = "closed"
       /\ streamState = "Completed" => YieldedValues = ValidRecords

\* C15: runQuery settles once.  An ok response resolves to the string at
\* output.content when the body is JSON that has one, and rejects when it
\* has none or not a string; a response that is not ok rejects with the
\* detail of its JSON body when it has one, and with the status otherwise.
C15_RunQueryOutcome ==
    /\ [](variant = "invoke"
          => /\ Len(results) <= 1
             /\ (gen = "completed") = (Len(results) = 1))
    /\ [][variant = "invoke"
          => /\ gen = "awaitFetch" /\ gen' \notin {"awaitFetch", "completed"}
                => gen' = (IF status \in 200..299 THEN "awaitResult" ELSE "awaitJson")
             /\ gen = "awaitJson" /\ gen' # "awaitJson"
                => results' = <<Failed("The Force is disturbed. API request failed: "
                      \o (IF sent = <<"detail">> /\ stream' = "closed" THEN "overloaded"
                          ELSE "HTTP error! status: " \o ToString(status)))>>
             /\ gen = "awaitResult" /\ gen' # "awaitResult"
                => IF stream' = "closed" /\ sent = <<"content">>
                   THEN results' = <<Resolved("hi")>>
                   ELSE IF stream' = "closed" /\ sent = <<"emptycontent">>
                   THEN results' = <<Resolved("")>>
                   ELSE Len(results') = 1 /\ results'[1].out = "error"
         ]_vars

C15_Resolved ==
    /\ variant = "invoke" /\ status = 200 /\ sent = <<"content">>
    /\ results = <<Resolved("hi")>>

\* C16: in the XHR variant, a terminated body of records written `data: `
\* or `data:` before the JSON yields one event per record, with the agent
\* and response of its JSON, by the time the stream completes.
C16_OptionalSpace ==
    (/\ variant = "xhr" /\ terminated /\ streamState = "Completed"
     /\ \A i \in DOMAIN sent : sent[i] \in {"event", "nospace"}
     /\ \E i \in DOMAIN sent : sent[i] = "nospace")
    => YieldedValues =
          [i \in 1..Len(sent) |->
              [agent |-> IF sent[i] = "event" THEN "A" ELSE "C", response |-> DigitOf(i)]]

\* The events of the records among recs[i..] whose line, with `data: `
\* removed when it starts with it, is the JSON of an event.
RECURSIVE JsonLinesFrom(_, _)
JsonLinesFrom(recs, i) ==
    IF i > Len(recs) THEN <<>>
    ELSE (CASE recs[i] = "event"    -> <<[agent |-> "A", response |-> DigitOf(i)]>>
            [] recs[i] = "nomarker" -> <<[agent |-> "D", response |-> DigitOf(i)]>>
            [] OTHER -> <<>>)
         \o JsonLinesFrom(recs, i + 1)

\* C17 as stated: in the reader variant, on a body of plain records and
\* records without the marker, only the plain records yield events.
C17_UnmarkedIgnored ==
    (/\ variant = "reader"
     /\ \A i \in DOMAIN sent : sent[i] \in {"event", "nomarker"}
     /\ \E i \in DOMAIN sent : sent[i] = "nomarker")
    => IsPrefix(YieldedValues, ValidRecords)

\* C17 as amended: in the reader variant, a line without the `data: ` prefix
\* is parsed as it stands: a record that is the bare JSON of an event yields
\* that event, a `data:` record without the space yields nothing, and a
\* stream that completes has yielded exactly the events of those lines.
C17_UnmarkedParsed ==
    (/\ variant = "reader"
     /\ \A i \in DOMAIN sent : sent[i] \in {"event", "nomarker", "nospace"})
    => /\ IsPrefix(YieldedValues, JsonLinesFrom(sent, 1))
       /\ streamState = "Completed" => YieldedValues = JsonLinesFrom(sent, 1)

C17_UnmarkedYielded ==
    /\ variant = "reader" /\ streamState = "Completed"
    /\ Len(sent) = 2 /\ sent[1] = "nomarker"
    /\ YieldedValues = <<[agent |-> "D", response |-> "1"], [agent |-> "A", response |-> "2"]>>

\* The request was aborted and not by the cleanup of the generator.
ExternalAbort == variant = "xhr" /\ xhrOutcome = "abort" /\ abortCalls = 0

\* C18 as stated: in the XHR variant, a stream whose request was aborted
\* from outside and that the consumer did not cancel ends Errored.
C18_ExternalAbortErrors ==
    (ExternalAbort /\ gen = "completed" /\ streamState # "Cancelled")
    => streamState = "Errored"

\* C18 as amended: in the XHR variant, a request aborted from outside puts
\* the end marker behind the queued events; the stream never becomes Errored
\* and, when the consumer pulls on, it ends Completed with the queue drained.
C18_ExternalAbortCompletes ==
    ExternalAbort
    => /\ streamState # "Errored"
       /\ streamState = "Active" => (queue # <<>> /\ queue[Len(queue)] = DoneItem)
       /\ (gen = "completed" /\ streamState # "Cancelled")
          => (streamState = "Completed" /\ queue = <<>>)

\* Aborted part way through the body, after which the consumer received an
\* event and then done.
C18_AbortedThenDone ==
    /\ ExternalAbort /\ streamState = "Completed"
    /\ received < Len(body)
    /\ Len(YieldedValues) >= 1

\* C19: in the XHR variant, a generator suspended on the waiter promise
\* either has that promise resolved, or has an empty queue and the resolver
\* of that promise stored in resolvePromise; a callback that enqueues
\* resolves the waiter exactly when its resolver is stored, and uses the
\* resolver up; and a call that is pending while the queue holds an item
\* settles.
C19_NoMissedWakeup ==
    /\ [](variant = "xhr" /\ gen = "awaiting"
          => \/ promise = "resolved"
             \/ (promise = "pending" /\ resolvePromise = "set" /\ queue = <<>>))
    /\ [][(variant = "xhr" /\ Len(queue') > Len(queue))
          => /\ resolvePromise' = "null"
             /\ promise' = IF resolvePromise = "set" THEN "resolved" ELSE promise]_vars
    /\ (variant = "xhr" /\ pull = "pending" /\ queue # <<>>) ~> (pull = "idle")

\* An item was enqueued while the consumer's call was pending, and the
\* waiter is resolved.
C19_WokenWaiter ==
    /\ variant = "xhr" /\ gen = "awaiting" /\ pull = "pending"
    /\ queue # <<>> /\ promise = "resolved" /\ resolvePromise = "null"

\* What is left of a text once every record with its closing boundary,
\* taken from the left, is removed.
RECURSIVE AfterLastBoundary(_)
AfterLastBoundary(text) ==
    LET boundary == IndexOf(text, "\n\n") IN
    IF boundary = 0 THEN text ELSE AfterLastBoundary(Substring(text, boundary + 1))

\* C20: in the XHR variant, after any onprogress and onload calls,
\* lastResponseLength lies between 0 and the length of responseText, which
\* it equals once processBuffer has run, and the buffer is the response text
\* up to lastResponseLength less its records and boundaries: the text removed
\* and the buffer make up that text, each character once.
C20_TextConsumedOnce ==
    variant = "xhr" =>
       LET seen == Prefix(responseText, lastResponseLength) IN
       /\ 0 <= lastResponseLength /\ lastResponseLength <= Len(responseText)
       /\ readyState >= 3 => lastResponseLength = Len(responseText)
       /\ buffer = AfterLastBoundary(seen)
       /\ Prefix(seen, Len(seen) - Len(buffer)) \o buffer = seen
       /\ Len(seen) > Len(buffer)
          => Substring(Prefix(seen, Len(seen) - Len(buffer)), Len(seen) - Len(buffer) - 2) = "\n\n"

\* A record and its boundary were removed and the start of the next record
\* waits in the buffer.
C20_PartialPending ==
    /\ variant = "xhr" /\ readyState = 3
    /\ lastResponseLength = Len(responseText)
    /\ buffer # "" /\ Len(buffer) < lastResponseLength
    /\ StartsWith(buffer, "data") /\ Len(QueuedValues(queue)) = 1

====
